---- MODULE Spec2Model ----
(***************************************************************************)
(* A model of fabric.py's multi-host execution orchestrator: main(), the   *)
(* connection manager (_connect, HostConnection.connect, _disconnect), the *)
(* strategies (_rolling_strategy, _fanout_strategy), the per-host          *)
(* invocation (_try_run_operation) and the failure policy (_fail).         *)
(*                                                                         *)
(* Python exceptions are modelled by the variable exc: raising one moves   *)
(* the main thread to main()'s finally clause with exc set.  The remote    *)
(* servers, the user at the password prompt, the fabfile's commands and    *)
(* the operations' results are the environment: each of their answers is   *)
(* a nondeterministic choice.                                              *)
(***************************************************************************)
EXTENDS Integers, Sequences, FiniteSets, TLC

VARIABLES
    ENV,                        \* the global environment (module dict ENV)
    user_envs,                  \* _connect's user_envs: user -> identity layer
    conns,                      \* the HostConnection objects, by position in fab_hosts
    host_connections_by_user,   \* _connect's grouping: user -> sequence of connections
    users_left,                 \* the users the loop over the groups has not visited
    CONNECTIONS,                \* the module list CONNECTIONS
    live,                       \* the session handles that are connected and not closed
    pc,                         \* where the main thread is
    exc,                        \* the exception the main thread is unwinding with
    exitStatus,                 \* the process's exit status, once it has exited
    disconnects,                \* how many times _disconnect has run
    handler,                    \* the SIGINT handler in place
    group,                      \* the connections map(HostConnection.connect, ..) runs over
    gi,                         \* map's position in group
    cenv,                       \* HostConnection.connect's local env
    password,                   \* HostConnection.connect's local password
    op,                         \* the per-host operation being executed
    idx,                        \* the strategy's position in CONNECTIONS
    calls,                      \* the invocations of fn by the per-host operation in progress:
                                \* position in CONNECTIONS -> record of the invocation
    aborted,                    \* the strategy under which a _fail applied policy abort, if any
    threads,                    \* _fanout_strategy's threads
    closure,                    \* the cell variables functor reads: host, client, env
    interrupted,                \* where the main thread was when an interrupt was delivered
                                \* during the per-host operation in progress, or ended the run
    tried,                      \* connection -> the password its first _do_connect passed
                                \* to client.connect
    arg,                        \* the argument of the function applied on its own
    result                      \* what that function returned or raised

vars == <<ENV, user_envs, conns, host_connections_by_user, users_left,
          CONNECTIONS, live, pc, exc, exitStatus, disconnects, handler,
          group, gi, cenv, password, op, idx, calls, aborted,
          threads, closure, interrupted, tried, arg, result>>

(***************************************************************************)
(* The bound of the model.  The commands may call set() and the per-host   *)
(* operations any number of times, the user may be prompted any number of  *)
(* times and interrupts may arrive any number of times: the state space is *)
(* finite without counting them.                                           *)
(***************************************************************************)
MaxHosts == 2       \* longest fab_hosts list

None == "None"

\* One thread per connection, one connection per fab_hosts entry.
MaxThreads == MaxHosts

(***************************************************************************)
(* Dictionaries are functions whose domain is the set of keys.             *)
(***************************************************************************)
Put(d, k, v) == [x \in DOMAIN d \cup {k} |-> IF x = k THEN v ELSE d[x]]

Update(d, e) ==
    [x \in DOMAIN d \cup DOMAIN e |-> IF x \in DOMAIN e THEN e[x] ELSE d[x]]

NoKwargs == [x \in {} |-> None]

\* The module-level ENV, without the keys no modelled code reads.
ENV0 ==
    [fab_mode |-> "rolling", fab_port |-> 22, fab_user |-> "alice",
     fab_password |-> None, fab_fail |-> "abort"]

\* The registry the @strategy decorator fills.
STRATEGIES == {"fanout", "rolling"}

(***************************************************************************)
(* Inputs: the fab_hosts entries.  The i-th entry names host HostName(i),  *)
(* with or without a "user@" part.                                         *)
(***************************************************************************)
HostName(i) == <<"h1", "h2", "h3", "h4", "h5">>[i]

\* The handle of the session connection c opens (an SSHClient object).
Session(c) == <<"ssh1", "ssh2", "ssh3", "ssh4", "ssh5">>[c]

HostLists ==
    UNION {[1..n -> {None, "dev"}] : n \in 0..MaxHosts}

HostString(u, i) == [user |-> u, hostname |-> HostName(i)]

FabHosts(us) == [i \in 1..Len(us) |-> HostString(us[i], i)]

Passwords == {"pw"}
FailValues == {"ignore", "warn", "abort", "bogus"}
ModeValues == {"rolling", "fanout", "bogus"}
KwargsValues == {NoKwargs} \cup {[fail |-> f] : f \in {"ignore", "warn", "abort"}}

\* The module's globals after import, and no frame entered.
Globals ==
    /\ ENV = ENV0
    /\ user_envs = NoKwargs
    /\ conns = << >>
    /\ host_connections_by_user = NoKwargs
    /\ users_left = {}
    /\ CONNECTIONS = << >>
    /\ live = {}
    /\ exc = None
    /\ exitStatus = None
    /\ disconnects = 0
    /\ handler = "default"
    /\ group = << >>
    /\ gi = 0
    /\ cenv = None
    /\ password = None
    /\ op = None
    /\ idx = 0
    /\ calls = NoKwargs
    /\ aborted = None
    /\ threads = << >>
    /\ closure = None
    /\ interrupted = None
    /\ tried = NoKwargs

Init ==
    /\ Globals
    /\ pc = "main"
    /\ arg = None
    /\ result = None

\* raise e, in the main thread: every frame up to main()'s try is left.
Raise(e) == pc' = "finally" /\ exc' = e

(***************************************************************************)
(* main(), up to _execute_commands: the fabfile is loaded (it sets, or     *)
(* does not set, fab_hosts) and the commands named on the command line are *)
(* validated.                                                              *)
(***************************************************************************)
LoadFabfile ==
    /\ pc = "main"
    /\ \/ UNCHANGED ENV                       \* the fabfile sets no fab_hosts
       \/ \E us \in HostLists : ENV' = Put(ENV, "fab_hosts", FabHosts(us))
    /\ pc' = "exec"
    /\ UNCHANGED <<user_envs, conns, host_connections_by_user, users_left,
                   CONNECTIONS, live, exc, exitStatus, disconnects, handler,
                   group, gi, cenv, password, op, idx, calls,
                   aborted, threads, closure, interrupted, tried, arg, result>>

\* _validate_commands: "No such command", sys.exit(1).
NoSuchCommand ==
    /\ pc = "main"
    /\ Raise("SystemExit1")
    /\ UNCHANGED <<ENV, user_envs, conns, host_connections_by_user, users_left,
                   CONNECTIONS, live, exitStatus, disconnects, handler,
                   group, gi, cenv, password, op, idx, calls,
                   aborted, threads, closure, interrupted, tried, arg, result>>

(***************************************************************************)
(* _execute_commands: the commands are the fabfile's code; what they do    *)
(* next is a choice among set(), a per-host operation, returning, and      *)
(* raising.                                                                *)
(***************************************************************************)
\* set(k=v): the value holds no %-reference, so v % ENV is v.
CallSet(k, v) ==
    /\ pc = "exec"
    /\ ENV' = Put(ENV, k, v)
    /\ UNCHANGED <<user_envs, conns, host_connections_by_user, users_left,
                   CONNECTIONS, live, pc, exc, exitStatus, disconnects, handler,
                   group, gi, cenv, password, op, idx, calls,
                   aborted, threads, closure, interrupted, tried, arg, result>>

\* A wrapper that calls _connect whether or not CONNECTIONS is empty.
CallOperation_reconnects(kwargs) ==
    /\ pc = "exec"
    /\ op' = [name |-> "run", kwargs |-> kwargs]
    /\ pc' = "_connect"
    /\ UNCHANGED <<ENV, user_envs, conns, host_connections_by_user, users_left,
                   CONNECTIONS, live, exc, exitStatus, disconnects, handler,
                   group, gi, cenv, password, idx, calls,
                   aborted, threads, closure, interrupted, tried, arg, result>>

\* get(name, otherwise): ENV.get(name, otherwise).
get(name, otherwise) == IF name \in DOMAIN ENV THEN ENV[name] ELSE otherwise

\* run_per_host's wrapper: connect when CONNECTIONS is empty, then dispatch.
CallOperation(kwargs) ==
    /\ pc = "exec"
    /\ op' = [name |-> "run", kwargs |-> kwargs]
    /\ pc' = IF CONNECTIONS = << >> THEN "_connect" ELSE "_on_hosts_do"
    /\ UNCHANGED <<ENV, user_envs, conns, host_connections_by_user, users_left,
                   CONNECTIONS, live, exc, exitStatus, disconnects, handler,
                   group, gi, cenv, password, idx, calls,
                   aborted, threads, closure, interrupted, tried, arg, result>>

\* Every command has returned: the try body of main() ends.
CommandsDone ==
    /\ pc = "exec"
    /\ pc' = "finally"
    /\ UNCHANGED <<ENV, user_envs, conns, host_connections_by_user, users_left,
                   CONNECTIONS, live, exc, exitStatus, disconnects, handler,
                   group, gi, cenv, password, op, idx, calls,
                   aborted, threads, closure, interrupted, tried, arg, result>>

\* A command raises an exception of its own.
CommandFault ==
    /\ pc = "exec"
    /\ Raise("Exception")
    /\ UNCHANGED <<ENV, user_envs, conns, host_connections_by_user, users_left,
                   CONNECTIONS, live, exitStatus, disconnects, handler,
                   group, gi, cenv, password, op, idx, calls,
                   aborted, threads, closure, interrupted, tried, arg, result>>

(***************************************************************************)
(* The connection manager.                                                 *)
(***************************************************************************)
HostConnection(hostname, port, user) ==
    [user |-> user,
     host_local_env |-> [fab_host |-> hostname, fab_port |-> port],
     client |-> None]

\* HostConnection.get_env of connection c: global, then user, then host layer.
get_env(c) ==
    Update(Update(ENV, user_envs[conns[c].user]), conns[c].host_local_env)

\* _connect's loop over fab_hosts, for one entry.
ParseHost(host, username, def_port) ==
    [user |-> IF host.user # None THEN host.user ELSE username,
     hostname |-> host.hostname,
     port |-> def_port]

\* A _check_fab_hosts that only looks for the variable, not at its length.
_check_fab_hosts_accepts_empty == "fab_hosts" \in DOMAIN ENV

_check_fab_hosts_ok ==
    /\ "fab_hosts" \in DOMAIN ENV
    /\ Len(ENV["fab_hosts"]) # 0

\* _connect, up to the loop that establishes the connections.
Connect ==
    /\ pc = "_connect"
    /\ IF ~_check_fab_hosts_ok
       THEN /\ Raise("SystemExit1")
            /\ UNCHANGED <<handler, conns, user_envs, host_connections_by_user,
                           users_left>>
       ELSE LET fab_hosts == ENV["fab_hosts"]
                parsed == [i \in 1..Len(fab_hosts) |->
                              ParseHost(fab_hosts[i], ENV["fab_user"],
                                        ENV["fab_port"])]
                users == {parsed[i].user : i \in 1..Len(fab_hosts)}
            IN  /\ handler' = "lambda"
                /\ conns' = [i \in 1..Len(fab_hosts) |->
                               HostConnection(parsed[i].hostname,
                                              parsed[i].port, parsed[i].user)]
                /\ user_envs' = [u \in users |-> [fab_user |-> u]]
                /\ host_connections_by_user' =
                       [u \in users |->
                           SelectSeq([i \in 1..Len(fab_hosts) |-> i],
                                     LAMBDA i : parsed[i].user = u)]
                /\ users_left' = users
                /\ pc' = "connect_loop"
                /\ UNCHANGED exc
    /\ UNCHANGED <<ENV, CONNECTIONS, live, exitStatus, disconnects,
                   group, gi, cenv, password, op, idx, calls,
                   aborted, threads, closure, interrupted, tried, arg, result>>

\* The loop over host_connections_by_user.iteritems(): a dict's order is
\* not the insertion order, so any unvisited user may come next.
ConnectNextGroup ==
    /\ pc = "connect_loop"
    /\ \E u \in users_left :
          /\ users_left' = users_left \ {u}
          /\ group' = host_connections_by_user[u]
          /\ gi' = 1
    /\ pc' = "connect"
    /\ UNCHANGED <<ENV, user_envs, conns, host_connections_by_user,
                   CONNECTIONS, live, exc, exitStatus, disconnects, handler,
                   cenv, password, op, idx, calls,
                   aborted, threads, closure, interrupted, tried, arg, result>>

\* map(HostConnection.connect, host_connections) has returned.
GroupConnected ==
    /\ pc = "connect"
    /\ gi > Len(group)
    /\ CONNECTIONS' = CONNECTIONS \o group
    /\ pc' = "connect_loop"
    /\ UNCHANGED <<ENV, user_envs, conns, host_connections_by_user, users_left,
                   live, exc, exitStatus, disconnects, handler,
                   group, gi, cenv, password, op, idx, calls,
                   aborted, threads, closure, interrupted, tried, arg, result>>

\* The loop is over: set(fab_connected=True), _connect returns (its local
\* variables are gone) and the wrapper dispatches.
ConnectDone ==
    /\ pc = "connect_loop"
    /\ users_left = {}
    /\ ENV' = Put(ENV, "fab_connected", TRUE)
    /\ pc' = "_on_hosts_do"
    /\ host_connections_by_user' = NoKwargs
    /\ group' = << >>
    /\ gi' = 0
    /\ UNCHANGED <<user_envs, conns, users_left,
                   CONNECTIONS, live, exc, exitStatus, disconnects, handler,
                   cenv, password, op, idx, calls,
                   aborted, threads, closure, interrupted, tried, arg, result>>

\* self.client = client, after a handshake that succeeded.
SetClient(c) ==
    /\ conns' = [conns EXCEPT ![c].client = Session(c)]
    /\ live' = live \cup {Session(c)}

\* HostConnection.connect, the first _do_connect: the server's answer is r.
HostConnect(r) ==
    /\ pc = "connect"
    /\ gi <= Len(group)
    /\ LET c == group[gi]
           env == get_env(c)
       IN  /\ tried' = Put(tried, c, env["fab_password"])
           /\ CASE r = "ok" ->
                    /\ SetClient(c)
                    /\ gi' = gi + 1
                    /\ UNCHANGED <<pc, exc, cenv, password>>
                [] r \in {"AuthenticationException", "SSHException"} ->
                    /\ cenv' = Put(env, "fab_passprompt_suffix",
                                   IF env["fab_password"] # None
                                   THEN " [Enter for previous]: " ELSE ": ")
                    /\ password' = None
                    /\ pc' = "getpass"
                    /\ UNCHANGED <<conns, live, gi, exc>>
                [] OTHER ->
                    /\ Raise(r)
                    /\ UNCHANGED <<conns, live, gi, cenv, password>>
    /\ UNCHANGED <<ENV, user_envs, host_connections_by_user, users_left,
                   CONNECTIONS, exitStatus, disconnects, handler,
                   group, op, idx, calls,
                   aborted, threads, closure, interrupted, arg, result>>

\* getpass.getpass returns p.
EnterPassword(p) ==
    /\ pc = "getpass"
    /\ password' = p
    /\ cenv' = Put(cenv, "fab_password", p)
    /\ pc' = "retry"
    /\ UNCHANGED <<ENV, user_envs, conns, host_connections_by_user, users_left,
                   CONNECTIONS, live, exc, exitStatus, disconnects, handler,
                   group, gi, op, idx, calls,
                   aborted, threads, closure, interrupted, tried, arg, result>>

\* End-of-input that ends the process on the spot (os._exit), past main()'s
\* finally clause.
PromptEOF_exits_at_once ==
    /\ pc = "getpass"
    /\ pc' = "exited"
    /\ exc' = "SystemExit0"
    /\ exitStatus' = 0
    /\ UNCHANGED <<ENV, user_envs, conns, host_connections_by_user, users_left,
                   CONNECTIONS, live, disconnects, handler,
                   group, gi, cenv, password, op, idx, calls,
                   aborted, threads, closure, interrupted, tried, arg, result>>

\* End-of-input taken as the failure of one host: the SystemExit of
\* sys.exit(0) is dropped by map's caller and the next connection is tried.
PromptEOF_skips_host ==
    /\ pc = "getpass"
    /\ exc' = "SystemExit0"
    /\ pc' = "connect"
    /\ gi' = gi + 1
    /\ cenv' = None
    /\ password' = None
    /\ UNCHANGED <<ENV, user_envs, conns, host_connections_by_user, users_left,
                   CONNECTIONS, live, exitStatus, disconnects, handler,
                   group, op, idx, calls,
                   aborted, threads, closure, interrupted, tried, arg, result>>

\* getpass.getpass raises EOFError: sys.exit(0).
PromptEOF ==
    /\ pc = "getpass"
    /\ Raise("SystemExit0")
    /\ UNCHANGED <<ENV, user_envs, conns, host_connections_by_user, users_left,
                   CONNECTIONS, live, exitStatus, disconnects, handler,
                   group, gi, cenv, password, op, idx, calls,
                   aborted, threads, closure, interrupted, tried, arg, result>>

\* A retry loop that, on success, stores the password in the connection's
\* own layer only.
Retry_keeps_password_local(r) ==
    /\ pc = "retry"
    /\ LET c == group[gi]
       IN  CASE r = "ok" ->
                 /\ conns' = [conns EXCEPT
                                ![c].client = Session(c),
                                ![c].host_local_env =
                                    Put(@, "fab_password", password)]
                 /\ live' = live \cup {Session(c)}
                 /\ gi' = gi + 1
                 /\ pc' = "connect"
                 /\ cenv' = None
                 /\ password' = None
                 /\ UNCHANGED <<exc, user_envs>>
             [] r = "AuthenticationException" ->
                 /\ cenv' = Put(cenv, "fab_passprompt_suffix", ": ")
                 /\ pc' = "getpass"
                 /\ UNCHANGED <<conns, live, user_envs, gi, exc, password>>
             [] OTHER ->
                 /\ Raise(r)
                 /\ UNCHANGED <<conns, live, user_envs, gi, cenv, password>>
    /\ UNCHANGED <<ENV, host_connections_by_user, users_left,
                   CONNECTIONS, exitStatus, disconnects, handler,
                   group, op, idx, calls,
                   aborted, threads, closure, interrupted, tried, arg, result>>

\* A retry loop that stores the password entered in the global ENV as well.
Retry_stores_password_globally(r) ==
    /\ pc = "retry"
    /\ LET c == group[gi]
       IN  CASE r = "ok" ->
                 /\ conns' = [conns EXCEPT
                                ![c].client = Session(c),
                                ![c].host_local_env =
                                    Put(@, "fab_password", password)]
                 /\ live' = live \cup {Session(c)}
                 /\ user_envs' = [user_envs EXCEPT ![conns[c].user] =
                                     Put(@, "fab_password", password)]
                 /\ gi' = gi + 1
                 /\ pc' = "connect"
                 /\ cenv' = None
                 /\ password' = None
                 /\ ENV' = Put(ENV, "fab_password", password)
                 /\ UNCHANGED exc
             [] r = "AuthenticationException" ->
                 /\ cenv' = Put(cenv, "fab_passprompt_suffix", ": ")
                 /\ pc' = "getpass"
                 /\ UNCHANGED <<ENV, conns, live, user_envs, gi, exc, password>>
             [] OTHER ->
                 /\ Raise(r)
                 /\ UNCHANGED <<ENV, conns, live, user_envs, gi, cenv, password>>
    /\ UNCHANGED <<host_connections_by_user, users_left,
                   CONNECTIONS, exitStatus, disconnects, handler,
                   group, op, idx, calls,
                   aborted, threads, closure, interrupted, tried, arg, result>>

\* The _do_connect of the retry loop: the server's answer is r.
Retry(r) ==
    /\ pc = "retry"
    /\ LET c == group[gi]
       IN  CASE r = "ok" ->
                 /\ conns' = [conns EXCEPT
                                ![c].client = Session(c),
                                ![c].host_local_env =
                                    Put(@, "fab_password", password)]
                 /\ live' = live \cup {Session(c)}
                 /\ user_envs' = [user_envs EXCEPT ![conns[c].user] =
                                     Put(@, "fab_password", password)]
                 /\ gi' = gi + 1
                 /\ pc' = "connect"
                 /\ cenv' = None
                 /\ password' = None
                 /\ UNCHANGED exc
             [] r = "AuthenticationException" ->
                 /\ cenv' = Put(cenv, "fab_passprompt_suffix", ": ")
                 /\ pc' = "getpass"
                 /\ UNCHANGED <<conns, live, user_envs, gi, exc, password>>
             [] OTHER ->
                 /\ Raise(r)
                 /\ UNCHANGED <<conns, live, user_envs, gi, cenv, password>>
    /\ UNCHANGED <<ENV, host_connections_by_user, users_left,
                   CONNECTIONS, exitStatus, disconnects, handler,
                   group, op, idx, calls,
                   aborted, threads, closure, interrupted, tried, arg, result>>

\* What client.connect can answer.
ConnectResults == {"ok", "AuthenticationException", "SSHException", "socket.error"}

\* _disconnect: close the client of every connection in CONNECTIONS.
Closed ==
    {conns[CONNECTIONS[i]].client : i \in 1..Len(CONNECTIONS)} \ {None}

\* A _disconnect after which the commands go on running.
Finally_then_continues ==
    /\ pc = "finally"
    /\ live' = live \ Closed
    /\ CONNECTIONS' = << >>
    /\ disconnects' = disconnects + 1
    /\ pc' = "exec"
    /\ exc' = None
    /\ host_connections_by_user' = NoKwargs
    /\ users_left' = {}
    /\ group' = << >>
    /\ gi' = 0
    /\ cenv' = None
    /\ password' = None
    /\ idx' = 0
    /\ UNCHANGED <<ENV, user_envs, conns, exitStatus, handler, op, calls,
                   aborted, threads, closure, interrupted, tried, arg, result>>

\* main()'s finally clause.  The frames the exception left (_connect's,
\* connect's, the strategy's) are gone by now, and their local variables
\* with them; the threads, and what their functor refers to, are not.
Finally ==
    /\ pc = "finally"
    /\ live' = live \ Closed
    /\ CONNECTIONS' = << >>
    /\ disconnects' = disconnects + 1
    /\ pc' = "after_finally"
    /\ host_connections_by_user' = NoKwargs
    /\ users_left' = {}
    /\ group' = << >>
    /\ gi' = 0
    /\ cenv' = None
    /\ password' = None
    /\ idx' = 0
    /\ UNCHANGED <<ENV, user_envs, conns, exc, exitStatus, handler, op, calls,
                   aborted, threads, closure, interrupted, tried, arg, result>>

\* The status main() ends the process with.
ExitCode(e) ==
    CASE e = None -> 0                  \* print("Done."); sys.exit(0)
      [] e = "SystemExit0" -> 0         \* except SystemExit: raise
      [] e = "SystemExit1" -> 1
      [] OTHER -> 1                     \* KeyboardInterrupt, and except:

Exit ==
    /\ pc = "after_finally"
    /\ exitStatus' = ExitCode(exc)
    /\ pc' = "exited"
    /\ UNCHANGED <<ENV, user_envs, conns, host_connections_by_user, users_left,
                   CONNECTIONS, live, exc, disconnects, handler,
                   group, gi, cenv, password, op, idx, calls,
                   aborted, threads, closure, interrupted, tried, arg, result>>

(***************************************************************************)
(* The failure policy.                                                     *)
(***************************************************************************)
\* _fail's table: policy -> (code, message prefix).
codes ==
    [ignore |-> [code |-> 1, msg_prefix |-> ""],
     warn   |-> [code |-> 2, msg_prefix |-> "Warning: "],
     abort  |-> [code |-> 3, msg_prefix |-> "Error: "]]

\* The text of an exception an operation function raises: "plain" has no
\* '%' in it; "percent" has a '%' that is no conversion the % operator can
\* carry out with a dict (as in "disk 100% full").
Messages == {"plain", "percent"}

\* _lazy_format(string, env) begins with string % env: whether it raises.
\* (err_msg itself holds no '%'; the exception's text is appended to it.)
_lazy_format_raises(msg) == msg = "percent"

\* _fail without the sys.exit(1) of policy abort: the message is printed and
\* _fail returns.
_fail_returns(kwargs, msg, env) ==
    LET envOk == "fab_fail" \in DOMAIN env /\ env["fab_fail"] \in DOMAIN codes
        kwOk == "fail" \in DOMAIN kwargs => kwargs["fail"] \in DOMAIN codes
        policy == IF "fail" \in DOMAIN kwargs
                  THEN kwargs["fail"] ELSE env["fab_fail"]
    IN  IF ~envOk \/ ~kwOk
        THEN [raised |-> "KeyError", printed |-> << >>, policy |-> None]
        ELSE IF codes[policy].code > 1 /\ _lazy_format_raises(msg)
        THEN [raised |-> "ValueError", printed |-> << >>, policy |-> policy]
        ELSE [raised |-> None,
              printed |-> IF codes[policy].code > 1
                          THEN <<codes[policy].msg_prefix>> ELSE << >>,
              policy |-> policy]

\* _fail(kwargs, msg, env): what it raises, what it prints, and the policy it
\* applied.  codes[env['fab_fail']] is looked up first, then, when kwargs
\* has a 'fail', codes[kwargs['fail']]; a key that codes lacks is a KeyError.
\* With code > 1 the message goes through _lazy_format before it is printed,
\* and before the sys.exit(1) of abort.
_fail(kwargs, msg, env) ==
    LET envOk == "fab_fail" \in DOMAIN env /\ env["fab_fail"] \in DOMAIN codes
        kwOk == "fail" \in DOMAIN kwargs => kwargs["fail"] \in DOMAIN codes
        policy == IF "fail" \in DOMAIN kwargs
                  THEN kwargs["fail"] ELSE env["fab_fail"]
    IN  IF ~envOk \/ ~kwOk
        THEN [raised |-> "KeyError", printed |-> << >>, policy |-> None]
        ELSE IF codes[policy].code > 1 /\ _lazy_format_raises(msg)
        THEN [raised |-> "ValueError", printed |-> << >>, policy |-> policy]
        ELSE [raised |-> IF codes[policy].code > 2
                         THEN "SystemExit1" ELSE None,
              printed |-> IF codes[policy].code > 1
                          THEN <<codes[policy].msg_prefix>> ELSE << >>,
              policy |-> policy]

\* What an operation function can do: return a true or a false value, raise
\* an exception (whose text is plain, or holds a '%'), or raise SystemExit.
Outcomes == {"True", "False", "Exception", "ExceptionPercent", "SystemExit"}

\* The text of the exception of an outcome that is one.
MessageOf(outcome) == IF outcome = "ExceptionPercent" THEN "percent" ELSE "plain"

\* _try_run_operation without its except SystemExit clause: a SystemExit fn
\* raises is caught by except BaseException like any other fault.
_try_run_operation_catches_exit(outcome, kwargs, env) ==
    LET f == _fail(kwargs, MessageOf(outcome), env)
        g == _fail(kwargs, "plain", env)
    IN  CASE outcome = "True" ->
              [raised |-> None, printed |-> << >>, applied |-> 0,
               policy |-> None]
          [] outcome = "False" ->
              [raised |-> g.raised, printed |-> g.printed, applied |-> 1,
               policy |-> g.policy]
          [] OTHER ->
              IF f.raised # None
              THEN [raised |-> f.raised, printed |-> f.printed, applied |-> 1,
                    policy |-> f.policy]
              ELSE [raised |-> g.raised, printed |-> f.printed \o g.printed,
                    applied |-> 2, policy |-> g.policy]

\* _try_run_operation, given what fn did: what it raises, what it prints,
\* how many times it called _fail, and the policy _fail applied.
_try_run_operation(outcome, kwargs, env) ==
    LET f == _fail(kwargs, MessageOf(outcome), env)   \* err_msg + ':\n' + str(e)
        g == _fail(kwargs, "plain", env)              \* err_msg + '.'
    IN  CASE outcome = "True" ->
              [raised |-> None, printed |-> << >>, applied |-> 0,
               policy |-> None]
          [] outcome = "SystemExit" ->          \* except SystemExit: raise
              [raised |-> "SystemExit1", printed |-> << >>, applied |-> 0,
               policy |-> None]
          [] outcome = "False" ->               \* if not success: _fail(..)
              [raised |-> g.raised, printed |-> g.printed, applied |-> 1,
               policy |-> g.policy]
          [] outcome \in {"Exception", "ExceptionPercent"} ->
              \* except BaseException: _fail(..); and, success being still
              \* False, the _fail after the try statement as well.
              IF f.raised # None
              THEN [raised |-> f.raised, printed |-> f.printed, applied |-> 1,
                    policy |-> f.policy]
              ELSE [raised |-> g.raised, printed |-> f.printed \o g.printed,
                    applied |-> 2, policy |-> g.policy]

\* The record kept of one invocation of an operation function.
\* worker is the position in CONNECTIONS of the connection conn that the
\* invocation is made for; host, client and env are the arguments fn gets.
Call(strategy, worker, conn, host, client, env) ==
    [strategy |-> strategy, worker |-> worker, conn |-> conn,
     host |-> host,
     client |-> client, env |-> env, outcome |-> None, raised |-> None,
     printed |-> << >>, applied |-> 0, policy |-> None]

Returned(call, outcome, r) ==
    [call EXCEPT !.outcome = outcome, !.raised = r.raised,
                 !.printed = r.printed, !.applied = r.applied,
                 !.policy = r.policy]

(***************************************************************************)
(* The strategies.                                                         *)
(***************************************************************************)
\* An _on_hosts_do that falls back on the rolling strategy when fab_mode
\* names none.
OnHostsDo_defaults_to_rolling ==
    /\ pc = "_on_hosts_do"
    /\ pc' = IF ENV["fab_mode"] \in STRATEGIES THEN ENV["fab_mode"] ELSE "rolling"
    /\ idx' = 1
    /\ UNCHANGED <<ENV, user_envs, conns, host_connections_by_user, users_left,
                   CONNECTIONS, live, exc, exitStatus, disconnects, handler,
                   group, gi, cenv, password, op, calls,
                   aborted, threads, closure, interrupted, tried, arg, result>>

\* _on_hosts_do: look the strategy up by ENV['fab_mode'].
OnHostsDo ==
    /\ pc = "_on_hosts_do"
    /\ IF ENV["fab_mode"] \in STRATEGIES
       THEN /\ pc' = ENV["fab_mode"]
            /\ idx' = 1
            /\ UNCHANGED exc
       ELSE /\ Raise("SystemExit1")
            /\ UNCHANGED idx
    /\ UNCHANGED <<ENV, user_envs, conns, host_connections_by_user, users_left,
                   CONNECTIONS, live, exitStatus, disconnects, handler,
                   group, gi, cenv, password, op, calls,
                   aborted, threads, closure, interrupted, tried, arg, result>>

\* A strategy that keeps one dict for all the connections and updates it
\* with the next connection's variables.
StrategyEnv_one_dict(c) ==
    LET fresh == Put(get_env(c), "fab_current_operation", op.name)
    IN  IF (idx - 1) \in DOMAIN calls
        THEN Update(calls[idx - 1].env, fresh)
        ELSE fresh

\* The env a strategy builds for connection c.
StrategyEnv(c) == Put(get_env(c), "fab_current_operation", op.name)

\* What fn does to the env it is given: an operation function may assign to
\* it, here to a key of its own, the host it was called with.
Written(env, host) == Put(env, "fab_scratch", host)

\* _rolling_strategy's loop body, up to the call of fn.
RollingInvoke ==
    /\ pc = "rolling"
    /\ idx <= Len(CONNECTIONS)
    /\ LET c == CONNECTIONS[idx]
           env == StrategyEnv(c)
       IN  calls' = Put(calls, idx, Call("rolling", idx, c, env["fab_host"],
                                         conns[c].client, env))
    /\ pc' = "fn"
    /\ UNCHANGED <<ENV, user_envs, conns, host_connections_by_user, users_left,
                   CONNECTIONS, live, exc, exitStatus, disconnects, handler,
                   group, gi, cenv, password, op, idx,
                   aborted, threads, closure, interrupted, tried, arg, result>>

\* After fn did `outcome`: the rest of _try_run_operation, and on to the next
\* connection unless it raised.
AfterFn(outcome) ==
    LET n == idx
        r == _try_run_operation(outcome, op.kwargs, calls[n].env)
    IN  /\ calls' = [calls EXCEPT ![n] =
                         Returned([@ EXCEPT !.env = Written(@, calls[n].host)],
                                  outcome, r)]
        /\ aborted' = IF r.policy = "abort" THEN calls[n].strategy ELSE aborted
        /\ IF r.raised # None
           THEN Raise(r.raised) /\ UNCHANGED idx
           ELSE pc' = "rolling" /\ idx' = idx + 1 /\ UNCHANGED exc

\* fn returns or raises, under the rolling strategy.
RollingReturn(outcome) ==
    /\ pc = "fn"
    /\ AfterFn(outcome)
    /\ UNCHANGED <<ENV, user_envs, conns, host_connections_by_user, users_left,
                   CONNECTIONS, live, exitStatus, disconnects, handler,
                   group, gi, cenv, password, op,
                   threads, closure, interrupted, tried, arg, result>>

\* _rolling_strategy returns: back in the command, the strategy's and the
\* wrapper's frames gone.
RollingDone ==
    /\ pc = "rolling"
    /\ idx > Len(CONNECTIONS)
    /\ pc' = "exec"
    /\ op' = None
    /\ idx' = 0
    /\ calls' = NoKwargs
    /\ interrupted' = None
    /\ UNCHANGED <<ENV, user_envs, conns, host_connections_by_user, users_left,
                   CONNECTIONS, live, exc, exitStatus, disconnects, handler,
                   group, gi, cenv, password,
                   aborted, threads, closure, tried, arg, result>>

\* _fanout_strategy's loop: every iteration rebinds the local variables env,
\* host and client, which functor reads when it is called; after the k-th
\* iteration they hold the values of the k-th connection.
Cells(k) ==
    LET c == CONNECTIONS[k]
        env == StrategyEnv(c)
    IN  [host |-> env["fab_host"], client |-> conns[c].client, env |-> env]

\* _fanout_strategy, up to the map that starts the threads: one thread per
\* connection, and the variables functor reads left as the last iteration
\* set them.
FanoutBuild ==
    /\ pc = "fanout"
    /\ threads' = [i \in 1..Len(CONNECTIONS) |->
                      [state |-> "new", conn |-> CONNECTIONS[i]]]
    /\ closure' = Cells(Len(CONNECTIONS))
    /\ pc' = "fanout_start"
    /\ UNCHANGED <<ENV, user_envs, conns, host_connections_by_user, users_left,
                   CONNECTIONS, live, exc, exitStatus, disconnects, handler,
                   group, gi, cenv, password, op, idx, calls,
                   aborted, interrupted, tried, arg, result>>

\* map(threading.Thread.start, threads): the next thread is started; after
\* the last one the strategy goes on to map(threading.Thread.join, threads).
FanoutStart ==
    /\ pc = "fanout_start"
    /\ threads' = [threads EXCEPT ![idx].state = "started"]
    /\ IF idx = Len(threads)
       THEN pc' = "fanout_join" /\ idx' = 1
       ELSE pc' = pc /\ idx' = idx + 1
    /\ UNCHANGED <<ENV, user_envs, conns, host_connections_by_user, users_left,
                   CONNECTIONS, live, exc, exitStatus, disconnects, handler,
                   group, gi, cenv, password, op, calls,
                   aborted, closure, interrupted, tried, arg, result>>

\* A join that does not wait: it returns whatever the thread's state.
FanoutJoin_no_wait ==
    /\ pc = "fanout_join"
    /\ idx <= Len(threads)
    /\ idx' = idx + 1
    /\ UNCHANGED <<ENV, user_envs, conns, host_connections_by_user, users_left,
                   CONNECTIONS, live, pc, exc, exitStatus, disconnects, handler,
                   group, gi, cenv, password, op, calls,
                   aborted, threads, closure, interrupted, tried, arg, result>>

\* Thread.join returns for the next thread, which has finished.
FanoutJoin ==
    /\ pc = "fanout_join"
    /\ idx <= Len(threads)
    /\ threads[idx].state = "done"
    /\ idx' = idx + 1
    /\ UNCHANGED <<ENV, user_envs, conns, host_connections_by_user, users_left,
                   CONNECTIONS, live, pc, exc, exitStatus, disconnects, handler,
                   group, gi, cenv, password, op, calls,
                   aborted, threads, closure, interrupted, tried, arg, result>>

\* _fanout_strategy returns: back in the command, the strategy's and the
\* wrapper's frames gone.
FanoutDone ==
    /\ pc = "fanout_join"
    /\ idx > Len(threads)
    /\ pc' = "exec"
    /\ op' = None
    /\ idx' = 0
    /\ calls' = NoKwargs
    /\ threads' = << >>
    /\ closure' = None
    /\ UNCHANGED <<ENV, user_envs, conns, host_connections_by_user, users_left,
                   CONNECTIONS, live, exc, exitStatus, disconnects, handler,
                   group, gi, cenv, password,
                   aborted, interrupted, tried, arg, result>>

\* Thread t runs functor, up to the call of fn: the arguments are what the
\* strategy's variables hold now.  (The threads are daemon threads: they run
\* only while the process has not exited.)
WorkerInvoke(t) ==
    /\ pc # "exited"
    /\ t \in 1..Len(threads)
    /\ threads[t].state = "started"
    /\ calls' = Put(calls, t, Call("fanout", t, threads[t].conn, closure.host,
                                   closure.client, closure.env))
    /\ threads' = [threads EXCEPT ![t].state = "running"]
    /\ UNCHANGED <<ENV, user_envs, conns, host_connections_by_user, users_left,
                   CONNECTIONS, live, pc, exc, exitStatus, disconnects, handler,
                   group, gi, cenv, password, op, idx,
                   aborted, closure, interrupted, tried, arg, result>>

\* fn returns or raises in thread t: the rest of _try_run_operation.  What it
\* raises, the SystemExit of _fail's sys.exit(1) included, ends the thread
\* and nothing else.  (The env fn wrote to is the one dict functor's
\* variable env refers to, in every thread.)
WorkerReturn(t, outcome) ==
    /\ pc # "exited"
    /\ t \in 1..Len(threads)
    /\ threads[t].state = "running"
    /\ LET n == t
           r == _try_run_operation(outcome, op.kwargs, calls[n].env)
           w == [k \in DOMAIN calls |->
                    [calls[k] EXCEPT !.env = Written(@, calls[n].host)]]
       IN  /\ calls' = [w EXCEPT ![n] = Returned(@, outcome, r)]
           /\ closure' = [closure EXCEPT !.env = Written(@, calls[n].host)]
           /\ aborted' = IF r.policy = "abort" THEN "fanout" ELSE aborted
    /\ threads' = [threads EXCEPT ![t].state = "done"]
    /\ UNCHANGED <<ENV, user_envs, conns, host_connections_by_user, users_left,
                   CONNECTIONS, live, pc, exc, exitStatus, disconnects, handler,
                   group, gi, cenv, password, op, idx,
                   interrupted, tried, arg, result>>

(***************************************************************************)
(* SIGINT.  Python runs a signal's handler in the main thread, where the   *)
(* main thread is; before _connect the handler is Python's own, which      *)
(* raises KeyboardInterrupt; _connect installs a lambda that takes no      *)
(* argument, so that calling it with (signum, frame) raises TypeError      *)
(* there.  The model delivers no signal once main()'s finally clause has    *)
(* begun.                                                                  *)
(***************************************************************************)
Interruptible == pc \notin {"finally", "after_finally", "exited"}

Sigint ==
    /\ Interruptible
    /\ interrupted' = pc
    /\ CASE handler = "default" ->
              /\ Raise("KeyboardInterrupt")
              /\ UNCHANGED <<calls, aborted, idx>>
         [] handler = "lambda" /\ pc \in {"getpass", "retry"} ->
              \* except (EOFError, TypeError): sys.exit(0)
              /\ Raise("SystemExit0")
              /\ UNCHANGED <<calls, aborted, idx>>
         [] handler = "lambda" /\ pc = "fn" ->
              \* raised in fn: _try_run_operation's except BaseException
              AfterFn("Exception")
         [] OTHER ->
              /\ Raise("TypeError")
              /\ UNCHANGED <<calls, aborted, idx>>
    /\ UNCHANGED <<ENV, user_envs, conns, host_connections_by_user, users_left,
                   CONNECTIONS, live, exitStatus, disconnects, handler,
                   group, gi, cenv, password, op,
                   threads, closure, tried, arg, result>>

Next ==
    \/ LoadFabfile
    \/ NoSuchCommand
    \/ \E v \in ModeValues : CallSet("fab_mode", v)
    \/ \E v \in FailValues : CallSet("fab_fail", v)
    \/ \E kwargs \in KwargsValues : CallOperation(kwargs)
    \/ CommandsDone
    \/ CommandFault
    \/ Connect
    \/ ConnectNextGroup
    \/ GroupConnected
    \/ ConnectDone
    \/ \E r \in ConnectResults : HostConnect(r)
    \/ \E p \in Passwords : EnterPassword(p)
    \/ PromptEOF
    \/ \E r \in ConnectResults : Retry(r)
    \/ OnHostsDo
    \/ RollingInvoke
    \/ \E o \in Outcomes : RollingReturn(o)
    \/ RollingDone
    \/ FanoutBuild
    \/ FanoutStart
    \/ FanoutJoin
    \/ FanoutDone
    \/ \E t \in 1..MaxThreads : WorkerInvoke(t)
    \/ \E t \in 1..MaxThreads, o \in Outcomes : WorkerReturn(t, o)
    \/ Sigint
    \/ Finally
    \/ Exit

Spec == Init /\ [][Next]_vars

(***************************************************************************)
(* Properties.                                                             *)
(***************************************************************************)
\* The invocation failed: fn returned a false value or raised a fault.
Failed(call) == call.outcome \in {"False", "Exception", "ExceptionPercent"}

\* The main thread has left main()'s try body.
Unwinding == pc \in {"finally", "after_finally", "exited"}

\* C1: under the rolling strategy the connections fn has been invoked for are
\* at every moment the first ones of CONNECTIONS (so they are invoked one
\* after the other in its order), and when the invocation for the k-th fails
\* with the policy resolved to abort, the process is ending and fn has been
\* invoked for the first k connections and for none after them.
C1_RollingFailFast ==
    \A k \in DOMAIN calls :
        calls[k].strategy = "rolling" =>
            /\ DOMAIN calls = 1..Cardinality(DOMAIN calls)
            /\ calls[k].host = conns[calls[k].conn].host_local_env["fab_host"]
            /\ (Failed(calls[k]) /\ calls[k].policy = "abort") =>
                   /\ DOMAIN calls = 1..k
                   /\ Unwinding

\* C1's case: the operation failed with policy abort on the first of two
\* connections, the process has exited, and the second was never invoked.
C1_Witness ==
    /\ pc = "exited"
    /\ Len(conns) = 2
    /\ DOMAIN calls = {1}
    /\ calls[1].strategy = "rolling"
    /\ Failed(calls[1])
    /\ calls[1].policy = "abort"

\* C2: when a _fail in a fanout worker applied policy abort, the process
\* ends with a non-zero exit status, and _disconnect has run by then.
C2_FanoutAbortExitsNonZero ==
    (pc = "exited" /\ aborted = "fanout") =>
        (exitStatus # 0 /\ disconnects >= 1)

\* The fanout strategy is about to return to the wrapper.
FanoutReturning ==
    /\ pc = "fanout_join"
    /\ idx > Len(threads)

\* C3: under the fanout strategy every invocation gets the host, the client
\* and the environment of the connection its thread was made for, and once
\* the strategy has returned each connection has had exactly one invocation.
C3_FanoutOwnArguments ==
    /\ \A k \in DOMAIN calls :
          calls[k].strategy = "fanout" =>
              LET own == conns[calls[k].conn]
              IN  /\ calls[k].host = own.host_local_env["fab_host"]
                  /\ calls[k].client = own.client
                  /\ calls[k].env["fab_host"] = own.host_local_env["fab_host"]
                  /\ calls[k].env["fab_user"] = own.user
    /\ FanoutReturning =>
          \A i \in 1..Len(CONNECTIONS) :
              \E k \in DOMAIN calls :
                  calls[k].host =
                      conns[CONNECTIONS[i]].host_local_env["fab_host"]

\* An invocation of an operation function starts in this step.
InvocationStarts == \E k \in DOMAIN calls' : k \notin DOMAIN calls

\* C4: once a _fail has applied policy abort, under either strategy, no
\* invocation of an operation function starts any more.
C4_NoInvocationAfterAbort ==
    [][aborted # None => ~InvocationStarts]_vars

\* C5: the fanout strategy waits on a thread only when it has started every
\* thread, and when it is through with the joins and about to return, every
\* thread it started has finished.
C5_FanoutStartsAllJoinsAll ==
    /\ pc = "fanout_join" =>
          \A t \in 1..Len(threads) : threads[t].state # "new"
    /\ FanoutReturning =>
          \A t \in 1..Len(threads) : threads[t].state = "done"

\* C5's case: the fanout strategy is about to return for two connections,
\* both threads having run fn to its end.
C5_Witness ==
    /\ FanoutReturning
    /\ Len(threads) = 2
    /\ DOMAIN calls = {1, 2}
    /\ \A t \in 1..Len(threads) : threads[t].state = "done"

\* C6: _disconnect has run exactly once when the process exits, and never
\* more than once before.
C6_DisconnectExactlyOnce ==
    /\ disconnects <= 1
    /\ pc = "exited" => disconnects = 1

\* C6's case: the process has exited by end-of-input at a password prompt
\* (the only sys.exit(0) that no interrupt causes), and _disconnect has run
\* once.
C6_Witness ==
    /\ pc = "exited"
    /\ exc = "SystemExit0"
    /\ interrupted = None
    /\ disconnects = 1

\* C7: once _disconnect has run, no session opened during the run is live
\* (stated for the runs in which no interrupt is delivered).
C7_DisconnectClosesAll ==
    (pc \in {"after_finally", "exited"} /\ interrupted = None) => live = {}

\* C8: once an interrupt has been delivered after _connect began, no
\* invocation of an operation function starts any more.
C8_InterruptStopsRun ==
    [][(interrupted # None /\ handler = "lambda") => ~InvocationStarts]_vars

\* C9: the policy applied to a failed invocation is the per-call fail when
\* there is one, whatever the environment's fab_fail is, and else the
\* fab_fail of the invocation's environment (stated for the invocations
\* that have a per-call fail or a fab_fail that is a policy).
C9_PolicyResolution ==
    \A k \in DOMAIN calls :
        LET override == "fail" \in DOMAIN op.kwargs
            fromEnv == /\ "fab_fail" \in DOMAIN calls[k].env
                       /\ calls[k].env["fab_fail"] \in DOMAIN codes
        IN  (calls[k].applied > 0 /\ (override \/ fromEnv)) =>
                calls[k].policy = IF override THEN op.kwargs["fail"]
                                  ELSE calls[k].env["fab_fail"]

\* C10: each application of a policy to a failed invocation prints nothing
\* under ignore, one "Warning: " message under warn, and in both cases the
\* invocation raises nothing; under abort it prints one "Error: " message
\* and the process ends with a non-zero exit status.
C10_PolicyEffects ==
    /\ \A k \in DOMAIN calls :
          /\ calls[k].policy = "ignore" =>
                 calls[k].printed = << >> /\ calls[k].raised = None
          /\ calls[k].policy = "warn" =>
                 /\ Len(calls[k].printed) = calls[k].applied
                 /\ \A j \in 1..Len(calls[k].printed) :
                        calls[k].printed[j] = "Warning: "
                 /\ calls[k].raised = None
          /\ calls[k].policy = "abort" =>
                 calls[k].printed = <<"Error: ">>
    /\ (pc = "exited" /\ aborted # None) => exitStatus # 0

\* C11: a fault an operation function raises, other than SystemExit, is
\* handed to _fail, and when the policy _fail applies to it is ignore or
\* warn, the per-host invocation raises nothing.
C11_FaultNeverPropagates ==
    \A k \in DOMAIN calls :
        calls[k].outcome \in {"Exception", "ExceptionPercent"} =>
            /\ calls[k].applied >= 1
            /\ calls[k].policy \in {"ignore", "warn"} => calls[k].raised = None

\* C12: a SystemExit an operation function raises is re-raised as it is by
\* the per-host invocation, whatever the failure policy: _fail is not called
\* for it and nothing is printed, and under the rolling strategy, where the
\* invocation runs in the main thread, main() is left with that SystemExit.
C12_ExitRequestPropagates ==
    \A k \in DOMAIN calls :
        calls[k].outcome = "SystemExit" =>
            /\ calls[k].raised = "SystemExit1"
            /\ calls[k].applied = 0
            /\ calls[k].policy = None
            /\ calls[k].printed = << >>
            /\ calls[k].strategy = "rolling" =>
                   (Unwinding /\ exc = "SystemExit1")

\* C12's case: under policy ignore the operation function raised SystemExit
\* on the first of two connections, and the process has exited with its
\* status.
C12_Witness ==
    /\ pc = "exited"
    /\ exitStatus = 1
    /\ Len(conns) = 2
    /\ DOMAIN calls = {1}
    /\ calls[1].strategy = "rolling"
    /\ calls[1].outcome = "SystemExit"
    /\ calls[1].env["fab_fail"] = "ignore"
    /\ op.kwargs = NoKwargs

\* C13: a per-host operation called while CONNECTIONS is not empty does not
\* call _connect; the HostConnection objects, once made, are never made
\* anew; and a connection gets a client only when it had none, so that each
\* fab_hosts entry is connected at most once in a run.
C13_ConnectOnce ==
    [][/\ (pc = "exec" /\ CONNECTIONS # << >>) => pc' # "_connect"
       /\ conns # << >> => DOMAIN conns' = DOMAIN conns
       /\ \A c \in DOMAIN conns :
             (c \in DOMAIN conns' /\ conns'[c].client # conns[c].client) =>
                 (conns[c].client = None /\ Session(c) \notin live)]_vars

\* C13's case: a later per-host operation of the run is invoking on the
\* second connection (an earlier one, under fanout, is over), and both
\* sessions are the ones _connect opened.
C13_Witness ==
    /\ aborted = "fanout"
    /\ pc = "fn"
    /\ idx = 2
    /\ Len(CONNECTIONS) = 2
    /\ live = {Session(1), Session(2)}
    /\ \A c \in DOMAIN conns : conns[c].client = Session(c)

\* C14: once _disconnect has run, no session is opened any more and no
\* connection gets a client: nothing of the run that follows (the rest of
\* main(), the threads still alive) connects again.
C14_NoReconnectAfterDisconnect ==
    [][disconnects >= 1 =>
          /\ live' \subseteq live
          /\ pc' \notin {"_connect", "connect_loop", "connect", "getpass",
                         "retry"}
          /\ \A c \in DOMAIN conns :
                c \in DOMAIN conns' /\ conns'[c].client = conns[c].client]_vars

\* C14's case: two sessions were opened, the commands returned, _disconnect
\* closed both, and the process has exited with both still closed.
C14_Witness ==
    /\ pc = "exited"
    /\ disconnects = 1
    /\ exc = None
    /\ live = {}
    /\ Len(conns) = 2
    /\ \A c \in DOMAIN conns : conns[c].client = Session(c)

\* C15: under the rolling strategy the k-th invocation of an operation is
\* made for the k-th entry of fab_hosts.
C15_RollingInputOrder ==
    \A k \in DOMAIN calls :
        calls[k].strategy = "rolling" =>
            calls[k].host = ENV["fab_hosts"][k].hostname

\* C16: while an operation is invoked for a connection, every key of that
\* connection's merged environment reads as the host layer's value when the
\* host layer has the key, else the identity layer's when that has it, else
\* the global one, both in get_env() and through get().
C16_ReadMostSpecific ==
    \A k \in DOMAIN calls :
        LET c == calls[k].conn
            host_layer == conns[c].host_local_env
            user_layer == user_envs[conns[c].user]
        IN  \A key \in DOMAIN get_env(c) :
                LET expected ==
                        IF key \in DOMAIN host_layer THEN host_layer[key]
                        ELSE IF key \in DOMAIN user_layer THEN user_layer[key]
                        ELSE ENV[key]
                IN  /\ get_env(c)[key] = expected
                    /\ get(key, None) = expected

\* The connections under the same user that come before c in fab_hosts and
\* got their session after a password was entered for them.
EnteredBefore(c) ==
    {b \in DOMAIN conns :
        /\ b < c
        /\ conns[b].user = conns[c].user
        /\ "fab_password" \in DOMAIN conns[b].host_local_env}

\* C17: a password entered with success for a connection is in that
\* connection's host layer and in its user's layer (where the one entered
\* last stays); a connection of that user that is connected afterwards
\* passes it to its first _do_connect; and a password is asked only for a
\* connection whose attempt has failed.
C17_PasswordCached ==
    /\ \A c \in DOMAIN conns :
          "fab_password" \in DOMAIN conns[c].host_local_env =>
              /\ conns[c].client # None
              /\ "fab_password" \in DOMAIN user_envs[conns[c].user]
              /\ (\A b \in DOMAIN conns : c \notin EnteredBefore(b)) =>
                     user_envs[conns[c].user]["fab_password"] =
                         conns[c].host_local_env["fab_password"]
    /\ \A c \in DOMAIN tried :
          EnteredBefore(c) # {} =>
              LET b == CHOOSE x \in EnteredBefore(c) :
                           \A y \in EnteredBefore(c) : y <= x
              IN  tried[c] = conns[b].host_local_env["fab_password"]
    /\ pc \in {"getpass", "retry"} =>
          (group[gi] \in DOMAIN tried /\ conns[group[gi]].client = None)

\* C17's case: a password was entered for the first of two connections of
\* one user, and the second passed it to its first attempt, which succeeded
\* without a prompt.
C17_Witness ==
    /\ Len(conns) = 2
    /\ conns[1].user = conns[2].user
    /\ "fab_password" \in DOMAIN conns[1].host_local_env
    /\ 2 \in DOMAIN tried
    /\ tried[2] = conns[1].host_local_env["fab_password"]
    /\ tried[2] # None
    /\ conns[2].client = Session(2)
    /\ "fab_password" \notin DOMAIN conns[2].host_local_env

\* C18: no failure of the kinds that open the prompt loop
\* (AuthenticationException, SSHException) ever leaves connect(): each is
\* followed by a prompt; and a prompt that follows a failed retry (a
\* password has been entered already) does not suggest the previous value.
C18_AuthFailureReprompts ==
    /\ exc \notin {"AuthenticationException", "SSHException"}
    /\ (pc = "getpass" /\ password # None) =>
           cenv["fab_passprompt_suffix"] = ": "

\* C19: once the sys.exit(0) of the password prompt has been raised, the
\* main thread only unwinds to the exit: no _do_connect is made for any
\* connection, no session is opened, and no operation function is invoked.
C19_PromptEOFEndsRun ==
    [][exc = "SystemExit0" =>
          /\ pc' \in {"finally", "after_finally", "exited"}
          /\ tried' = tried
          /\ live' \subseteq live
          /\ ~InvocationStarts]_vars

\* C19's case: end-of-input at the prompt for one of two hosts; the process
\* has exited, the other host was never tried and nothing was invoked.
C19_Witness ==
    /\ pc = "exited"
    /\ exc = "SystemExit0"
    /\ interrupted = None
    /\ exitStatus = 0
    /\ Len(conns) = 2
    /\ Cardinality(DOMAIN tried) = 1
    /\ calls = NoKwargs

\* C20: every invocation of a per-host operation is made by the strategy
\* that ENV's fab_mode names while the operation is executed (so that under
\* a fab_mode that names no strategy there is no invocation); when
\* _on_hosts_do finds that fab_mode names no strategy, it raises the
\* SystemExit of sys.exit(1) without an invocation (the only other step the
\* main thread can take there is an interrupt's); and a process that ends
\* with that SystemExit ends with status 1.
C20_StrategyByName ==
    /\ [](\A k \in DOMAIN calls : calls[k].strategy = ENV["fab_mode"])
    /\ []((pc = "exited" /\ exc = "SystemExit1") => exitStatus = 1)
    /\ [][( /\ pc = "_on_hosts_do"
            /\ pc' # pc
            /\ ENV["fab_mode"] \notin STRATEGIES
            /\ interrupted' = interrupted ) =>
              (pc' = "finally" /\ exc' = "SystemExit1" /\ calls' = NoKwargs)]_vars

\* C20's case: an operation ran under fanout, fab_mode was then set to a
\* name that is no strategy, and the next operation ended the run with
\* status 1 without an invocation.
C20_Witness ==
    /\ pc = "exited"
    /\ aborted = "fanout"
    /\ "fab_connected" \in DOMAIN ENV
    /\ ENV["fab_mode"] = "bogus"
    /\ interrupted = None
    /\ exc = "SystemExit1"
    /\ exitStatus = 1
    /\ calls = NoKwargs

\* C21: while ENV has no fab_hosts, or an empty one, no _do_connect is made,
\* no session is opened and no operation function is invoked; _connect, when
\* it is called then, raises the SystemExit of sys.exit(1) (the only other
\* step the main thread can take there is an interrupt's); and a process
\* that ends with that SystemExit ends with status 1.
C21_NoHostsRejected ==
    /\ []((IF "fab_hosts" \in DOMAIN ENV THEN ENV["fab_hosts"] = << >> ELSE TRUE)
            => (tried = NoKwargs /\ live = {} /\ calls = NoKwargs))
    /\ []((pc = "exited" /\ exc = "SystemExit1") => exitStatus # 0)
    /\ [][( /\ pc = "_connect"
            /\ pc' # pc
            /\ (IF "fab_hosts" \in DOMAIN ENV
                THEN ENV["fab_hosts"] = << >> ELSE TRUE)
            /\ interrupted' = interrupted ) =>
              (pc' = "finally" /\ exc' = "SystemExit1" /\ conns' = << >>)]_vars

\* C21's case: a per-host operation was called with an empty fab_hosts, and
\* the process has exited with status 1 without a connection attempt.
C21_Witness ==
    /\ pc = "exited"
    /\ "fab_hosts" \in DOMAIN ENV
    /\ ENV["fab_hosts"] = << >>
    /\ exc = "SystemExit1"
    /\ exitStatus = 1
    /\ interrupted = None
    /\ tried = NoKwargs
    /\ live = {}

(***************************************************************************)
(* Host strings.  A string is the sequence of its characters; the entries  *)
(* of fab_hosts are drawn from the strings over Chars, which has the two   *)
(* separators, two letters and a digit.                                    *)
(***************************************************************************)
MaxHostLen == 5     \* longest host string

Chars == {"u", "h", "@", ":", "2"}

HostStrings == UNION {[1..n -> Chars] : n \in 0..MaxHostLen}

\* A string the model does not look into, as a string of one symbol.
Text(name) == <<name>>

\* txt.find(sep), counted from 1; 0 where Python returns -1.
find(txt, sep) ==
    IF \E i \in 1..Len(txt) : txt[i] = sep
    THEN CHOOSE i \in 1..Len(txt) :
             /\ txt[i] = sep
             /\ \A j \in 1..(i - 1) : txt[j] # sep
    ELSE 0

\* A partition that cuts at the last occurrence of sep, as str.rpartition.
partition_at_last(txt, sep) ==
    IF \E i \in 1..Len(txt) : txt[i] = sep
    THEN LET i == CHOOSE i \in 1..Len(txt) :
                      /\ txt[i] = sep
                      /\ \A j \in (i + 1)..Len(txt) : txt[j] # sep
         IN  <<SubSeq(txt, 1, i - 1), <<sep>>, SubSeq(txt, i + 1, Len(txt))>>
    ELSE <<txt, << >>, << >> >>

\* partition(txt, sep): str.partition, or the fallback for Python < 2.5.
partition(txt, sep) ==
    LET i == find(txt, sep)
    IN  IF i = 0
        THEN <<txt, << >>, << >> >>
        ELSE <<SubSeq(txt, 1, i - 1), <<sep>>, SubSeq(txt, i + 1, Len(txt))>>

\* int(s) for a string: its value, or -1 where int raises ValueError.
RECURSIVE int(_)
int(s) ==
    IF s = << >> THEN -1
    ELSE IF s[Len(s)] # "2" THEN -1
    ELSE IF Len(s) = 1 THEN 2
    ELSE LET hi == int(SubSeq(s, 1, Len(s) - 1))
         IN  IF hi = -1 THEN -1 ELSE 10 * hi + 2

\* The body of _connect's loop up to the HostConnection call, for the
\* entry host: what is passed on as user, hostname and port.
parse_host(host, username, def_port) ==
    LET at == partition(host, "@")
        user == IF find(host, "@") # 0 THEN at[1] ELSE << >>
        host_and_port == IF find(host, "@") # 0 THEN at[3] ELSE host
        colon == partition(host_and_port, ":")
        port == IF colon[3] # << >> THEN int(colon[3]) ELSE def_port
    IN  IF port = -1
        THEN [raised |-> "ValueError", user |-> << >>, hostname |-> << >>,
              port |-> -1]
        ELSE [raised |-> None,
              user |-> IF user # << >> THEN user ELSE username,
              hostname |-> colon[1],
              port |-> port]

\* _connect is entered with a fab_hosts entry chosen freely.
InitParse ==
    /\ Globals
    /\ pc = "parse"
    /\ arg \in HostStrings
    /\ result = None

ParseStep ==
    /\ pc = "parse"
    /\ result' = parse_host(arg, Text(ENV["fab_user"]), ENV["fab_port"])
    /\ pc' = "parsed"
    /\ UNCHANGED <<ENV, user_envs, conns, host_connections_by_user, users_left,
                   CONNECTIONS, live, exc, exitStatus, disconnects, handler,
                   group, gi, cenv, password, op, idx, calls, aborted,
                   threads, closure, interrupted, tried, arg>>

NextParse == ParseStep

SpecParse == InitParse /\ [][NextParse]_vars

\* The parse the specification describes: the identity ends at the last
\* "@", the port starts after the first ":" that follows.
LastAtParse(host, username, def_port) ==
    LET at == partition_at_last(host, "@")
        user == IF at[2] # << >> THEN at[1] ELSE << >>
        host_and_port == IF at[2] # << >> THEN at[3] ELSE host
        colon == partition(host_and_port, ":")
        port == IF colon[3] # << >> THEN int(colon[3]) ELSE def_port
    IN  IF port = -1
        THEN [raised |-> "ValueError", user |-> << >>, hostname |-> << >>,
              port |-> -1]
        ELSE [raised |-> None,
              user |-> IF user # << >> THEN user ELSE username,
              hostname |-> colon[1],
              port |-> port]

\* C22: a host string [identity@]host[:port] is parsed into the identity
\* before its last "@" (the global identity when it has none), the port
\* after the first ":" that follows (the global port when it has none) and
\* the hostname between them.
C22_HostParsing ==
    (/\ pc = "parsed"
     /\ arg # << >>
     /\ arg[1] \notin {"@", ":"}
     /\ arg[Len(arg)] \notin {"@", ":"}) =>
        result = LastAtParse(arg, Text(ENV["fab_user"]), ENV["fab_port"])

(***************************************************************************)
(* Formatting.  The strings handed to _lazy_format are sequences over      *)
(* FormatChars: the characters the % operator and the regular expression   *)
(* look at, and three runs of letters, which are the names of variables: v *)
(* and w are set by the fabfile, fab_host is the host-scoped variable.  No *)
(* letter of the alphabet begins a conversion the % operator carries out   *)
(* with a dict (v and w are no conversion types, %f needs a float).        *)
(***************************************************************************)
MaxFormatLen == 4       \* longest string formatted
RecursionLimit == 4     \* deepest nesting of _lazy_format calls the
                        \* interpreter allows (sys.getrecursionlimit)

FormatChars == {"%", "$", "(", ")", "v", "w", "fab_host"}

FormatStrings == UNION {[1..n -> FormatChars] : n \in 0..MaxFormatLen}

\* The values the fabfile gives v and w.
ValuesOfV ==
    { <<"v">>, <<"%", "%">>, <<"$", "(", "v", ")">>, <<"$", "(", "w", ")">>,
      <<"$", "(", "fab_host", ")">> }

ValuesOfW == { <<"w">>, <<"$", "(", "v", ")">>, <<"$", "(", "w", ")">> }

\* The per-host operations that format their arguments.
Formatters == {"run", "sudo", "put", "download"}

\* \w of the regular expression.
WordChar(c) == c \notin {"%", "$", "(", ")"}

\* The dict key a run of characters spells: a run of two names is no key
\* of any environment of the model.
Key(name) == IF Len(name) = 1 THEN name[1] ELSE "other"

\* What an evaluation gives: the string returned, or the exception raised.
Returns(value) == [raised |-> None, value |-> value]

Raises(e) == [raised |-> e, value |-> << >>]

\* head + tail, where the evaluation of tail may have raised.
Then(head, tail) ==
    IF tail.raised # None THEN tail ELSE Returns(head \o tail.value)

\* str(v) of every value of env: v and w hold strings over FormatChars, any
\* other value prints as letters the model does not look into.
str(env) ==
    [k \in DOMAIN env |-> IF k \in {"v", "w"} THEN env[k] ELSE Text(env[k])]

\* The % operator reading a mapping key "(...)" from position i with pcount
\* parentheses open: the position of the ")" that ends the key, 0 if none.
RECURSIVE KeyEnd(_, _, _)
KeyEnd(s, i, pcount) ==
    IF i > Len(s) THEN 0
    ELSE IF s[i] = ")"
         THEN IF pcount = 1 THEN i ELSE KeyEnd(s, i + 1, pcount - 1)
    ELSE IF s[i] = "(" THEN KeyEnd(s, i + 1, pcount + 1)
    ELSE KeyEnd(s, i + 1, pcount)

\* The conversion the % operator finds after "%" or "%(key)": c is "%", or a
\* character that is no conversion it can carry out.
Conversion(c, rest) ==
    IF c = "%" THEN Then(<<"%">>, rest)
    ELSE IF c = "fab_host" THEN Raises("TypeError")
    ELSE Raises("ValueError")

\* string % env
RECURSIVE percent(_, _)
percent(s, env) ==
    IF s = << >> THEN Returns(<< >>)
    ELSE IF s[1] # "%" THEN Then(<<s[1]>>, percent(Tail(s), env))
    ELSE IF Len(s) = 1 THEN Raises("ValueError")
    ELSE IF s[2] = "("
         THEN LET j == KeyEnd(s, 3, 1)
              IN  IF j = 0 THEN Raises("ValueError")
                  ELSE IF Key(SubSeq(s, 3, j - 1)) \notin DOMAIN env
                       THEN Raises("KeyError")
                  ELSE IF j = Len(s) THEN Raises("ValueError")
                  ELSE Conversion(s[j + 1],
                                  percent(SubSeq(s, j + 2, Len(s)), env))
    ELSE Conversion(s[2], percent(SubSeq(s, 3, Len(s)), env))

\* The first position from i on that holds no word character, 0 if none.
RECURSIVE WordEnd(_, _)
WordEnd(s, i) ==
    IF i > Len(s) THEN 0
    ELSE IF WordChar(s[i]) THEN WordEnd(s, i + 1)
    ELSE i

\* What re.sub needs of a match at the start of s: the position of its last
\* character and its group var; end is 0 where the pattern does not match.
Match(end, var) == [end |-> end, var |-> var]

\* A pattern whose parentheses are optional, \$\(?(?P<var>\w+)\)?.
_LAZY_FORMAT_SUBSTITUTER_optional_parens(s) ==
    IF Len(s) >= 2 /\ s[1] = "$"
    THEN LET i == IF s[2] = "(" THEN 3 ELSE 2
             j == WordEnd(s, i)
             k == IF j = 0 THEN Len(s) + 1 ELSE j
         IN  IF k = i THEN Match(0, << >>)
             ELSE IF k <= Len(s) /\ s[k] = ")"
                  THEN Match(k, SubSeq(s, i, k - 1))
             ELSE Match(k - 1, SubSeq(s, i, k - 1))
    ELSE Match(0, << >>)

\* _LAZY_FORMAT_SUBSTITUTER, \$\((?P<var>\w+?)\), matched at the start of s.
_LAZY_FORMAT_SUBSTITUTER(s) ==
    IF Len(s) >= 4 /\ s[1] = "$" /\ s[2] = "("
    THEN LET j == WordEnd(s, 3)
         IN  IF j > 3 /\ s[j] = ")"
             THEN Match(j, SubSeq(s, 3, j - 1))
             ELSE Match(0, << >>)
    ELSE Match(0, << >>)

RECURSIVE _lazy_format(_, _, _)
RECURSIVE sub(_, _, _)

\* re.sub(_LAZY_FORMAT_SUBSTITUTER, replacer_fn, s), with replacer_fn
\* inlined, in a _lazy_format call nested depth deep.  (env is the dict
\* _lazy_format was given: str leaves the strings of its copy as they are.)
sub(s, env, depth) ==
    IF s = << >> THEN Returns(<< >>)
    ELSE LET match == _LAZY_FORMAT_SUBSTITUTER(s)
         IN  IF match.end = 0 THEN Then(<<s[1]>>, sub(Tail(s), env, depth))
             ELSE LET var == Key(match.var)
                      eager == percent(str(env)[var], str(env))
                      replaced ==
                          IF var \notin DOMAIN env
                          THEN Returns(SubSeq(s, 1, match.end))
                          ELSE IF eager.raised # None THEN eager
                          ELSE _lazy_format(eager.value, env, depth + 1)
                  IN  IF replaced.raised # None THEN replaced
                      ELSE Then(replaced.value,
                                sub(SubSeq(s, match.end + 1, Len(s)), env,
                                    depth))

\* A _lazy_format that replaces a reference by the variable's value without
\* formatting the value in turn.
_lazy_format_one_level(string, env, depth) ==
    IF depth > 1 THEN Returns(string)
    ELSE LET eager == percent(string, str(env))
         IN  IF eager.raised # None THEN eager
             ELSE sub(eager.value, env, depth)

\* _lazy_format(string, env), called depth deep; the interpreter raises
\* RuntimeError when the calls nest deeper than its limit.
_lazy_format(string, env, depth) ==
    IF depth > RecursionLimit THEN Raises("RuntimeError")
    ELSE LET eager == percent(string, str(env))
         IN  IF eager.raised # None THEN eager
             ELSE sub(eager.value, env, depth)

\* The environment run, sudo and put format with is the env argument; that
\* of download is the default of _lazy_format's parameter, the global ENV.
FormatEnv(name, env) == IF name = "download" THEN ENV ELSE env

\* A per-host operation is being invoked for the only host, h1, with an
\* argument chosen freely; the fabfile has set v and w.
InitFormat ==
    /\ \E x \in ValuesOfV, y \in ValuesOfW :
           ENV = Update(ENV0, [fab_hosts |-> FabHosts(<<None>>),
                               v |-> x, w |-> y])
    /\ user_envs = [u \in {"alice"} |-> [fab_user |-> u]]
    /\ conns = <<[HostConnection(HostName(1), 22, "alice")
                     EXCEPT !.client = Session(1)]>>
    /\ host_connections_by_user = [u \in {"alice"} |-> <<1>>]
    /\ users_left = {}
    /\ CONNECTIONS = <<1>>
    /\ live = {Session(1)}
    /\ pc = "format"
    /\ exc = None
    /\ exitStatus = None
    /\ disconnects = 0
    /\ handler = "lambda"
    /\ group = << >>
    /\ gi = 0
    /\ cenv = None
    /\ password = None
    /\ op = None
    /\ idx = 1
    /\ calls = NoKwargs
    /\ aborted = None
    /\ threads = << >>
    /\ closure = None
    /\ interrupted = None
    /\ tried = NoKwargs
    /\ arg \in FormatStrings
    /\ result = None

\* The operation function name formats its argument.
Format(name) ==
    /\ pc = "format"
    /\ op' = [name |-> name, kwargs |-> NoKwargs]
    /\ result' = _lazy_format(arg, FormatEnv(name, get_env(1)), 1)
    /\ pc' = "formatted"
    /\ UNCHANGED <<ENV, user_envs, conns, host_connections_by_user, users_left,
                   CONNECTIONS, live, exc, exitStatus, disconnects, handler,
                   group, gi, cenv, password, idx, calls, aborted,
                   threads, closure, interrupted, tried, arg>>

NextFormat == \E name \in Formatters : Format(name)

SpecFormat == InitFormat /\ [][NextFormat]_vars

\* s holds a lazy reference: "$(", one or more letters, ")".
HasToken(s) ==
    \E i, j \in 1..Len(s) :
        /\ j >= i + 3
        /\ s[i] = "$"
        /\ s[i + 1] = "("
        /\ s[j] = ")"
        /\ \A k \in (i + 2)..(j - 1) : s[k] \in {"v", "w", "fab_host"}

HasPercent(s) == \E i \in 1..Len(s) : s[i] = "%"

LazyRef(s, name) ==
    \E i \in 1..Len(s) :
        i + 3 <= Len(s) /\ SubSeq(s, i, i + 3) = <<"$", "(", name, ")">>

\* The value of x refers to y, directly or through the other variable.
Reaches(x, y) ==
    \/ LazyRef(ENV[x], y)
    \/ \E z \in {"v", "w"} : LazyRef(ENV[x], z) /\ LazyRef(ENV[z], y)

\* Formatting a reference to x meets a variable whose value refers to
\* itself, directly or through the other variable.
Cyclic(x) ==
    \/ Reaches(x, x)
    \/ \E y \in {"v", "w"} : Reaches(x, y) /\ Reaches(y, y)

\* C24: _lazy_format has no cycle guard.  Applied to a string that refers to
\* a variable whose value refers to itself, directly or through another
\* variable, it returns no string: the calls nest until the interpreter
\* stops them.  Where no variable's value leads back to itself, the calls
\* do not nest without end.
C24_NoCycleGuard ==
    pc = "formatted" =>
        /\ \A x \in {"v", "w"} :
               (LazyRef(arg, x) /\ Cyclic(x)) =>
                   /\ result.raised # None
                   /\ ~HasPercent(arg) => result.raised = "RuntimeError"
        /\ (\A x \in {"v", "w"} : ~Cyclic(x)) => result.raised # "RuntimeError"

C24_Witness ==
    /\ pc = "formatted"
    /\ arg = <<"$", "(", "v", ")">>
    /\ ENV["v"] = <<"$", "(", "w", ")">>
    /\ ENV["w"] = <<"$", "(", "v", ")">>
    /\ result = Raises("RuntimeError")

\* C25: run, sudo, put and download each resolve the lazy references of
\* their argument against the merged environment of the host they are
\* invoked for: $(fab_host) becomes that host's name.
C25_FormatsWithHostEnv ==
    pc = "formatted" =>
        /\ result = _lazy_format(arg, get_env(1), 1)
        /\ arg = <<"$", "(", "fab_host", ")">> =>
               result = Returns(Text(conns[1].host_local_env["fab_host"]))

\* C26: _fail is applied at most once for each invocation: an invocation
\* that fails under policy warn, whether fn raised a fault or returned a
\* false value, prints exactly one warning.
C26_PolicyAppliedOnce ==
    \A k \in DOMAIN calls :
        /\ calls[k].applied <= 1
        /\ (Failed(calls[k]) /\ calls[k].policy = "warn") =>
               Len(calls[k].printed) = 1

\* C27: every connection in CONNECTIONS holds the client of a handshake
\* that succeeded and that has not been closed, and every invocation of an
\* operation function a strategy makes is handed such a client.
C27_InvokedWithLiveClient ==
    /\ [](\A i \in 1..Len(CONNECTIONS) : conns[CONNECTIONS[i]].client \in live)
    /\ [][InvocationStarts =>
            \A k \in DOMAIN calls' :
                k \notin DOMAIN calls => calls'[k].client \in live]_vars

\* C28: a password entered at the prompt of a connection under identity u
\* stays with u.  The global ENV never holds it; the layer of an identity
\* and the layer of a connection are written only by the retry loop of a
\* connection of that identity, respectively of that connection; so a
\* merged environment holds a password only if it was entered for a
\* connection of the same identity.
C28_PasswordConfined ==
    /\ [](ENV["fab_password"] = None)
    /\ [](\A c \in DOMAIN conns :
              get_env(c)["fab_password"] # None =>
                  \E d \in DOMAIN conns :
                      /\ conns[d].user = conns[c].user
                      /\ "fab_password" \in DOMAIN conns[d].host_local_env
                      /\ conns[d].client # None)
    /\ [][/\ \A u \in DOMAIN user_envs \cap DOMAIN user_envs' :
                 user_envs'[u] # user_envs[u] =>
                     pc = "retry" /\ conns[group[gi]].user = u
          /\ \A c \in DOMAIN conns \cap DOMAIN conns' :
                 conns'[c].host_local_env # conns[c].host_local_env =>
                     pc = "retry" /\ group[gi] = c]_vars

C28_Witness ==
    /\ Len(conns) = 2
    /\ conns[1].user # conns[2].user
    /\ "fab_password" \in DOMAIN conns[1].host_local_env
    /\ get_env(1)["fab_password"] = "pw"
    /\ conns[2].client # None
    /\ get_env(2)["fab_password"] = None

\* The keys an invocation's env gets from the strategy and from fn.
InvocationKeys == {"fab_current_operation", "fab_scratch"}

\* C29: the env an invocation is handed is a copy of its own.  What the
\* strategy and the operation function write to it reaches no layer: the
\* global ENV, the layers of the identities and the layers of the
\* connections hold none of the keys written, and no step that starts or
\* ends an invocation changes a layer.  Under the rolling strategy the env
\* handed to the invocation for a host holds nothing an earlier invocation
\* wrote.
C29_PrivateEnv ==
    /\ [](/\ DOMAIN ENV \cap InvocationKeys = {}
          /\ \A u \in DOMAIN user_envs :
                 DOMAIN user_envs[u] \cap InvocationKeys = {}
          /\ \A c \in DOMAIN conns :
                 DOMAIN conns[c].host_local_env \cap InvocationKeys = {})
    /\ [](\A k \in DOMAIN calls :
              (calls[k].strategy = "rolling" /\ calls[k].outcome = None) =>
                  /\ "fab_scratch" \notin DOMAIN calls[k].env
                  /\ calls[k].env["fab_host"] = calls[k].host)
    /\ [][calls' # calls => UNCHANGED <<ENV, user_envs, conns>>]_vars

C29_Witness ==
    /\ DOMAIN calls = {1, 2}
    /\ calls[1].strategy = "rolling"
    /\ calls[1].outcome = "True"
    /\ calls[1].env["fab_scratch"] = "h1"
    /\ calls[2].strategy = "rolling"
    /\ calls[2].outcome = None
    /\ "fab_scratch" \notin DOMAIN calls[2].env
    /\ "fab_current_operation" \in DOMAIN calls[2].env
====
